---- MODULE Spec2Model ----
(***************************************************************************)
(* A model of the number-theoretic core of num-prime: the modular          *)
(* arithmetic kernel of src/src/integer.rs (addm, subm, mulm, powm, fac2,  *)
(* invm, jacobi for the fixed-width, 128-bit and arbitrary-precision       *)
(* back ends) and is_prime64 / factors64 of src/src/nt_funcs.rs.           *)
(*                                                                         *)
(* The library is purely functional, so the state of a specification is    *)
(* one call: its operands, the operation applied and the value returned.   *)
(* factors64 is modelled step by step (trial division, work stack, trial   *)
(* counter), since its sub-factor searches draw random numbers.            *)
(***************************************************************************)
EXTENDS Integers, Sequences, FiniteSets, TLC

VARIABLES
    op,        \* the kernel operation applied to (a, b, m), "idle" before the call
    a,         \* first operand (self)
    b,         \* second operand (rhs, or the exponent of powm)
    m,         \* the modulus (n for jacobi)
    ret,       \* the values returned, one field per implementation
    \* one run of factors64
    pc,        \* where the run is: "idle", "call", "trial", "tried", "pop",
               \* "search" or "done"
    target,    \* the argument T
    result,    \* the BTreeMap from prime to exponent
    residual,  \* what trial division has left of T
    factored,  \* trial division has finished the factorization
    pidx,      \* position of the trial-division loop in SMALL_PRIMES
    todo,      \* the work stack of the hard residuals
    cur,       \* the entry popped from the stack (the inner `target`)
    i          \* the trial counter of the sub-factor search

kernel == <<op, a, b, m, ret>>

run == <<pc, target, result, residual, factored, pidx, todo, cur, i>>

vars == <<op, a, b, m, ret, pc, target, result, residual, factored, pidx, todo, cur, i>>

(***************************************************************************)
(* Bounds of the model.                                                    *)
(***************************************************************************)
\* Width, in bits, of the machine word of the kernel calls that are checked
\* exhaustively. It stands for 8, 16, 32, 64 in the double-width
\* implementations and for 128 in the implementation that has no wider
\* accumulator.
WordBits == 4

RECURSIVE Pow2(_)
Pow2(k) == IF k = 0 THEN 1 ELSE 2 * Pow2(k - 1)

Word == 0 .. (Pow2(WordBits) - 1)

Min(x, y) == IF x <= y THEN x ELSE y
Max(x, y) == IF x >= y THEN x ELSE y

\* Option<T>
None == <<>>
Some(x) == <<x>>
is_some(o) == Len(o) = 1
unwrap(o) == o[1]

(***************************************************************************)
(* Word-level primitives of the 128-bit implementation, at WordBits bits.  *)
(***************************************************************************)
\* u128::checked_add: None when the sum does not fit in the word
checked_add(x, y) == IF x + y < Pow2(WordBits) THEN Some(x + y) ELSE None

\* u128::checked_mul: None when the product does not fit in the word
checked_mul(x, y) == IF x * y < Pow2(WordBits) THEN Some(x * y) ELSE None

\* unchecked +, - on a word: the value a release build keeps (wrapping)
wrapping_add(x, y) == (x + y) % Pow2(WordBits)
wrapping_sub(x, y) == (x - y) % Pow2(WordBits)

\* {integer}::trailing_zeros on a word of `bits` bits: the number of low zero
\* bits, which is `bits` for x = 0
RECURSIVE tz_from(_, _, _)
tz_from(bits, x, k) ==
    IF k = bits THEN bits
    ELSE IF x % 2 = 1 THEN k
    ELSE tz_from(bits, x \div 2, k + 1)

trailing_zeros(bits, x) == tz_from(bits, x, 0)

\* BigUint::trailing_zeros: None for zero, else the index of the lowest set bit
RECURSIVE big_tz_from(_, _)
big_tz_from(x, k) == IF x % 2 = 1 THEN k ELSE big_tz_from(x \div 2, k + 1)

big_trailing_zeros(x) == IF x = 0 THEN None ELSE Some(big_tz_from(x, 0))

(***************************************************************************)
(* impl_mod_arithm_uu: the fixed-width implementations (u8/u16, u16/u32,   *)
(* u32/u64, u64/u128) that promote to a double-width accumulator.          *)
(***************************************************************************)
\* ((x as Tdouble) * (y as Tdouble)) % (n as Tdouble): the double-width
\* product never wraps, so this is the exact product reduced modulo n. For
\* operands whose product leaves the model checker's integers the same value
\* is evaluated three bits of y at a time, x * y = 8 * (x * (y div 8)) +
\* x * (y mod 8), with every intermediate below 16 * n (n < 2^27).
RECURSIVE double_mul_rem(_, _, _)
double_mul_rem(x, y, n) ==
    IF x <= 46340 /\ y <= 46340 THEN (x * y) % n
    ELSE IF y = 0 THEN 0
    ELSE LET h == double_mul_rem(x % n, y \div 8, n)
         IN  (((h * 8) % n) + (((x % n) * (y % 8)) % n)) % n

fac2_uu(x) == trailing_zeros(WordBits, x)

addm_uu(lhs, rhs, n) == (lhs + rhs) % n

\* subm without the reduction of the operands
subm_uu_no_reduce(x, y, n) == IF x >= y THEN x - y ELSE n - (y - x)

subm_uu(x, y, n) ==
    LET lhs == x % n
        rhs == y % n
    IN  IF lhs >= rhs THEN lhs - rhs ELSE n - (rhs - lhs)

\* mulm with the product taken in the word, not in the double word
mulm_uu_truncated(lhs, rhs, n) == ((lhs * rhs) % Pow2(WordBits)) % n

mulm_uu(lhs, rhs, n) == double_mul_rem(lhs, rhs, n)

\* the loop `while exp > 0`; st is <<multi, exp, result>>
RECURSIVE powm_uu_loop(_, _)
powm_uu_loop(st, n) ==
    IF st[2] > 0
    THEN CHOOSE r \in {powm_uu_loop(next, n) : next \in
                 {<<mulm_uu(st[1], st[1], n), st[2] \div 2,
                    IF st[2] % 2 > 0 THEN mulm_uu(st[3], st[1], n) ELSE st[3]>>}} : TRUE
    ELSE st[3]

powm_uu(x, exp, n) ==
    IF exp = 1 THEN x % n
    ELSE IF exp = 2 THEN mulm_uu(x, x, n)
    ELSE powm_uu_loop(<<x % n, exp, 1>>, n)

\* impl_invm_prim, instantiated with the double-width subm and mulm
RECURSIVE invm_uu_loop(_, _, _, _, _)
invm_uu_loop(last_r, r, last_t, t, n) ==
    IF r > 0
    THEN LET quo == last_r \div r
             rem == last_r % r
             new_t == subm_uu(last_t, mulm_uu(quo, t, n), n)
         IN  invm_uu_loop(r, rem, t, new_t, n)
    ELSE IF last_r > 1 THEN None ELSE Some(last_t)

\* invm without the final test of the gcd: the coefficient is returned as is
RECURSIVE invm_uu_loop_unchecked(_, _, _, _, _)
invm_uu_loop_unchecked(last_r, r, last_t, t, n) ==
    IF r > 0
    THEN LET quo == last_r \div r
             rem == last_r % r
             new_t == subm_uu(last_t, mulm_uu(quo, t, n), n)
         IN  invm_uu_loop_unchecked(r, rem, t, new_t, n)
    ELSE Some(last_t)

invm_uu_unchecked(x, n) ==
    LET x0 == IF x >= n THEN x % n ELSE x
    IN  invm_uu_loop_unchecked(n, x0, 0, 1, n)

invm_uu(x, n) ==
    LET x0 == IF x >= n THEN x % n ELSE x
    IN  invm_uu_loop(n, x0, 0, 1, n)

(***************************************************************************)
(* impl_jacobi_prim: the Jacobi symbol of the primitive types.             *)
(***************************************************************************)
\* the inner loop: halve x while it is even, toggling t when n & 7 is 3 or 5
RECURSIVE jacobi_strip(_, _, _)
jacobi_strip(x, n, t) ==
    IF x % 2 = 0
    THEN jacobi_strip(x \div 2, n, IF n % 8 = 3 \/ n % 8 = 5 THEN -t ELSE t)
    ELSE <<x, t>>

\* the outer loop `while a > 0` and the final `if n == 1 { t } else { 0 }`
RECURSIVE jacobi_loop(_, _, _)
jacobi_loop(x, n, t) ==
    IF x > 0
    THEN LET s  == jacobi_strip(x, n, t)
             \* std::mem::swap(&mut a, &mut n)
             x1 == n
             n1 == s[1]
             t1 == IF x1 % 4 = 3 /\ n1 % 4 = 3 THEN -s[2] ELSE s[2]
         IN  jacobi_loop(x1 % n1, n1, t1)
    ELSE IF n = 1 THEN t ELSE 0

\* jacobi without the sign change of the reciprocity step
RECURSIVE jacobi_loop_no_flip(_, _, _)
jacobi_loop_no_flip(x, n, t) ==
    IF x > 0
    THEN LET s == jacobi_strip(x, n, t)
         IN  jacobi_loop_no_flip(n % s[1], s[1], s[2])
    ELSE IF n = 1 THEN t ELSE 0

jacobi_prim_no_flip(x, n) ==
    IF x = 0 THEN 0
    ELSE IF x = 1 THEN 1
    ELSE jacobi_loop_no_flip(x % n, n, 1)

jacobi_prim(x, n) ==
    IF x = 0 THEN 0
    ELSE IF x = 1 THEN 1
    ELSE jacobi_loop(x % n, n, 1)

(***************************************************************************)
(* impl ModInt<&u128, &u128> for &u128: no wider accumulator exists, so    *)
(* addm and mulm work inside the word (WordBits bits here).                *)
(***************************************************************************)
fac2_u128(x) == trailing_zeros(WordBits, x)

\* addm whose overflow branch adds the reduced operands in the word
addm_u128_no_split(x, y, n) ==
    LET ab == checked_add(x, y)
    IN  IF is_some(ab) THEN unwrap(ab) % n
        ELSE wrapping_add(x % n, y % n)

addm_u128(x, y, n) ==
    LET ab == checked_add(x, y)
    IN  IF is_some(ab) THEN unwrap(ab) % n
        ELSE LET lhs == x % n
                 rhs == y % n
             IN  IF lhs < wrapping_sub(n, rhs)
                 THEN wrapping_add(lhs, rhs)
                 ELSE wrapping_sub(Min(lhs, rhs), wrapping_sub(n, Max(lhs, rhs)))

subm_u128(x, y, n) ==
    LET lhs == x % n
        rhs == y % n
    IN  IF lhs >= rhs THEN wrapping_sub(lhs, rhs)
        ELSE wrapping_sub(n, wrapping_sub(rhs, lhs))

\* the shift-and-add loop `while b > 0` of mulm
RECURSIVE mulm_u128_loop(_, _, _, _)
mulm_u128_loop(x, y, res, n) ==
    IF y > 0
    THEN mulm_u128_loop(addm_u128(x, x, n), y \div 2,
                        IF y % 2 > 0 THEN addm_u128(res, x, n) ELSE res, n)
    ELSE res

\* mulm whose overflow branch multiplies the reduced operands in the word
mulm_u128_wrapping(x, y, n) ==
    LET ab == checked_mul(x, y)
    IN  IF is_some(ab) THEN unwrap(ab) % n
        ELSE (((x % n) * (y % n)) % Pow2(WordBits)) % n

mulm_u128(x, y, n) ==
    LET ab == checked_mul(x, y)
    IN  IF is_some(ab) THEN unwrap(ab) % n
        ELSE LET x0 == x % n
                 y0 == y % n
                 ab0 == checked_mul(x0, y0)
             IN  IF is_some(ab0) THEN unwrap(ab0) % n
                 ELSE mulm_u128_loop(x0, y0, 0, n)

RECURSIVE powm_u128_loop(_, _, _, _)
powm_u128_loop(multi, exp, res, n) ==
    IF exp > 0
    THEN powm_u128_loop(mulm_u128(multi, multi, n), exp \div 2,
                        IF exp % 2 > 0 THEN mulm_u128(res, multi, n) ELSE res, n)
    ELSE res

powm_u128(x, exp, n) ==
    IF exp = 1 THEN x % n
    ELSE powm_u128_loop(x % n, exp, 1, n)

\* impl_invm_prim, instantiated with the 128-bit subm and mulm
RECURSIVE invm_u128_loop(_, _, _, _, _)
invm_u128_loop(last_r, r, last_t, t, n) ==
    IF r > 0
    THEN LET quo == last_r \div r
             rem == last_r % r
             new_t == subm_u128(last_t, mulm_u128(quo, t, n), n)
         IN  invm_u128_loop(r, rem, t, new_t, n)
    ELSE IF last_r > 1 THEN None ELSE Some(last_t)

invm_u128(x, n) ==
    LET x0 == IF x >= n THEN x % n ELSE x
    IN  invm_u128_loop(n, x0, 0, 1, n)

(***************************************************************************)
(* impl ModInt<&BigUint, &BigUint> for &BigUint: arbitrary precision.      *)
(***************************************************************************)
fac2_big(x) ==
    LET z == big_trailing_zeros(x)
    IN  IF is_some(z) THEN unwrap(z) ELSE 0

addm_big(x, y, n) == (x + y) % n

subm_big(x, y, n) ==
    LET lhs == x % n
        rhs == y % n
    IN  IF lhs >= rhs THEN lhs - rhs ELSE n - (rhs - lhs)

\* <&BigUint as ModInt>::jacobi: the same loop on BigUint, the tests on the
\* low bits written with & 7 and & 3
RECURSIVE jacobi_big_strip(_, _, _)
jacobi_big_strip(x, n, t) ==
    IF x % 2 = 0
    THEN jacobi_big_strip(x \div 2, n, IF n % 8 = 3 \/ n % 8 = 5 THEN -t ELSE t)
    ELSE <<x, t>>

RECURSIVE jacobi_big_loop(_, _, _)
jacobi_big_loop(x, n, t) ==
    IF x > 0
    THEN LET s  == jacobi_big_strip(x, n, t)
             x1 == n
             n1 == s[1]
             t1 == IF x1 % 4 = 3 /\ n1 % 4 = 3 THEN -s[2] ELSE s[2]
         IN  jacobi_big_loop(x1 % n1, n1, t1)
    ELSE IF n = 1 THEN t ELSE 0

jacobi_big(x, n) ==
    IF x = 0 THEN 0
    ELSE IF x = 1 THEN 1
    ELSE jacobi_big_loop(x % n, n, 1)

(***************************************************************************)
(* Static data and collaborators that live outside the two source files.   *)
(***************************************************************************)
\* tables::SMALL_PRIMES without the big-table feature: all primes below 256
SMALL_PRIMES ==
    <<2, 3, 5, 7, 11, 13, 17, 19, 23, 29, 31, 37, 41, 43, 47, 53, 59, 61, 67,
      71, 73, 79, 83, 89, 97, 101, 103, 107, 109, 113, 127, 131, 137, 139,
      149, 151, 157, 163, 167, 173, 179, 181, 191, 193, 197, 199, 211, 223,
      227, 229, 233, 239, 241, 251>>

\* slice::binary_search(..).is_ok() on the sorted table
in_small_primes(u) == \E k \in 1 .. Len(SMALL_PRIMES) : SMALL_PRIMES[k] = u

\* Roots::sqrt: the floor of the square root (root <= 46340 for every value
\* the model checker can hold)
RECURSIVE sqrt_between(_, _, _)
sqrt_between(x, lo, hi) ==
    IF lo = hi THEN lo
    ELSE CHOOSE r \in {IF mid * mid <= x THEN sqrt_between(x, mid, hi)
                        ELSE sqrt_between(x, lo, mid - 1) :
                        mid \in {(lo + hi + 1) \div 2}} : TRUE

sqrt(x) == sqrt_between(x, 0, Min(x, 46340))

\* PrimalityUtils::is_sprp: n - 1 = d * 2^s with d odd; x = base^d mod n by
\* powm; true if x is 1 or n - 1, or if one of the next s - 1 squarings of x
\* is n - 1
RECURSIVE sprp_squarings(_, _, _)
sprp_squarings(x, n, left) ==
    IF left <= 0 THEN FALSE
    ELSE \E x2 \in {mulm_uu(x, x, n)} :
             x2 = n - 1 \/ sprp_squarings(x2, n, left - 1)

RECURSIVE odd_part(_)
odd_part(x) == IF x % 2 = 1 THEN x ELSE odd_part(x \div 2)

is_sprp(n, base) ==
    LET s == big_tz_from(n - 1, 0)
        d == odd_part(n - 1)
        x == powm_uu(base, d, n)
    IN  x = 1 \/ x = n - 1 \/ sprp_squarings(x, n, s - 1)

(***************************************************************************)
(* A u64 beyond the integers of the model checker is held as <<hi, lo>>,   *)
(* its value being hi * 2^16 + lo with lo < 2^16. The u64 kernel on such   *)
(* values: the double-width product of mulm followed by the remainder is   *)
(* obtained by doubling and adding modulo n.                               *)
(***************************************************************************)
Half == Pow2(16)

u64(x) == <<x \div Half, x % Half>>
narrow(w) == w[1] * Half + w[2]
is_narrow(w) == w[1] < Pow2(11)

u64_lt(x, y) == x[1] < y[1] \/ (x[1] = y[1] /\ x[2] < y[2])
u64_add(x, y) == <<x[1] + y[1] + (x[2] + y[2]) \div Half, (x[2] + y[2]) % Half>>
u64_sub(x, y) ==
    IF x[2] >= y[2] THEN <<x[1] - y[1], x[2] - y[2]>>
    ELSE <<x[1] - y[1] - 1, x[2] + Half - y[2]>>
u64_shr1(x) == <<x[1] \div 2, (x[2] + (x[1] % 2) * Half) \div 2>>
u64_odd(x) == x[2] % 2 = 1

\* (x + y) % n for x, y < n
addm_u64(x, y, n) ==
    LET sum == u64_add(x, y)
    IN  IF u64_lt(sum, n) THEN sum ELSE u64_sub(sum, n)

\* (x * y) % n for x, y < n; st is <<x * 2^k mod n, y >> k, sum so far>>
RECURSIVE mulm_u64_loop(_, _)
mulm_u64_loop(st, n) ==
    IF st[2] = <<0, 0>> THEN st[3]
    ELSE mulm_u64_loop(<<addm_u64(st[1], st[1], n), u64_shr1(st[2]),
                         IF u64_odd(st[2]) THEN addm_u64(st[3], st[1], n)
                         ELSE st[3]>>, n)

mulm_u64(x, y, n) == mulm_u64_loop(<<x, y, <<0, 0>>>>, n)

\* powm of the uu kernel for x < n; st is <<multi, exp, result>>
RECURSIVE powm_u64_loop(_, _)
powm_u64_loop(st, n) ==
    IF st[2] = <<0, 0>> THEN st[3]
    ELSE powm_u64_loop(<<mulm_u64(st[1], st[1], n), u64_shr1(st[2]),
                         IF u64_odd(st[2]) THEN mulm_u64(st[3], st[1], n)
                         ELSE st[3]>>, n)

powm_u64(x, exp, n) ==
    IF exp = <<0, 1>> THEN x
    ELSE IF exp = <<0, 2>> THEN mulm_u64(x, x, n)
    ELSE powm_u64_loop(<<x, exp, <<0, 1>>>>, n)

RECURSIVE u64_tz(_)
u64_tz(x) == IF u64_odd(x) THEN 0 ELSE 1 + u64_tz(u64_shr1(x))

RECURSIVE u64_odd_part(_)
u64_odd_part(x) == IF u64_odd(x) THEN x ELSE u64_odd_part(u64_shr1(x))

RECURSIVE sprp_squarings_u64(_, _, _)
sprp_squarings_u64(x, n, left) ==
    IF left <= 0 THEN FALSE
    ELSE LET x2 == mulm_u64(x, x, n)
         IN  x2 = u64_sub(n, <<0, 1>>) \/ sprp_squarings_u64(x2, n, left - 1)

\* PrimalityUtils::is_sprp on a u64, for odd n > base
is_sprp_u64(n, base) ==
    LET n1 == u64_sub(n, <<0, 1>>)
        s == u64_tz(n1)
        d == u64_odd_part(n1)
        x == powm_u64(u64(base), d, n)
    IN  x = <<0, 1>> \/ x = n1 \/ sprp_squarings_u64(x, n, s - 1)

\* target.is_sprp(base) for a target of any size
sprp(t, base) ==
    IF is_narrow(t) THEN is_sprp(narrow(t), base) ELSE is_sprp_u64(t, base)

(***************************************************************************)
(* is_prime64, the build without the big-table feature. The target is a    *)
(* u64 held as <<hi, lo>>.                                                 *)
(***************************************************************************)
\* the limits of u8::try_from, u16::try_from and u32::try_from
fits_u8(t) == t[1] = 0 /\ t[2] < Pow2(8)
fits_u16(t) == t[1] = 0
fits_u32(t) == t[1] < Half

WITNESS64 == <<2, 325, 9375, 28178, 450775, 9780504, 1795265022>>

\* the bases of the SPRP tests of is_prime64: 2 and 3 for a u16, 2, 7 and 61
\* for a u32, the seven of WITNESS64 beyond
witnesses(t) ==
    IF fits_u16(t) THEN <<2, 3>>
    ELSE IF fits_u32(t) THEN <<2, 7, 61>>
    ELSE WITNESS64

\* is_prime64 with every range tested to base 2 only
is_prime64_one_base(t) ==
    IF t = <<0, 0>> THEN FALSE
    ELSE IF t[2] % 2 = 0 THEN t = <<0, 2>>
    ELSE IF fits_u8(t) THEN in_small_primes(t[2])
    ELSE sprp(t, 2)

is_prime64(t) ==
    IF t = <<0, 0>> THEN FALSE
    ELSE IF t[2] % 2 = 0 THEN t = <<0, 2>>
    ELSE IF fits_u8(t) THEN in_small_primes(t[2])
    ELSE \A k \in 1 .. Len(witnesses(t)) : sprp(t, witnesses(t)[k])

(***************************************************************************)
(* The kernel specification: one call of one operation on operands drawn   *)
(* from the whole word. m >= 1 is the callers' obligation (division by     *)
(* m = 0 is a contract violation), and jacobi needs an odd modulus.        *)
(***************************************************************************)
NoRet == [uu |-> 0, u128 |-> 0]

\* BTreeMap::new()
EmptyMap == [k \in {} |-> 0]

\* no run of factors64 is under way
NoRun ==
    /\ pc = "idle"
    /\ target = 0
    /\ result = EmptyMap
    /\ residual = 0
    /\ factored = FALSE
    /\ pidx = 0
    /\ todo = <<>>
    /\ cur = 0
    /\ i = 0

KernelInit ==
    /\ op = "idle"
    /\ a \in Word
    /\ b \in Word
    /\ m \in Word \ {0}
    /\ ret = NoRet
    /\ NoRun

Addm ==
    /\ op = "idle"
    /\ op' = "addm"
    /\ ret' = [uu |-> addm_uu(a, b, m), u128 |-> addm_u128(a, b, m),
               big |-> addm_big(a, b, m)]
    /\ UNCHANGED <<a, b, m, run>>

Subm ==
    /\ op = "idle"
    /\ op' = "subm"
    /\ ret' = [uu |-> subm_uu(a, b, m), u128 |-> subm_u128(a, b, m),
               big |-> subm_big(a, b, m)]
    /\ UNCHANGED <<a, b, m, run>>

Mulm ==
    /\ op = "idle"
    /\ op' = "mulm"
    /\ ret' = [uu |-> mulm_uu(a, b, m), u128 |-> mulm_u128(a, b, m)]
    /\ UNCHANGED <<a, b, m, run>>

\* the exponent is b
Powm ==
    /\ op = "idle"
    /\ op' = "powm"
    /\ ret' = [uu |-> powm_uu(a, b, m), u128 |-> powm_u128(a, b, m)]
    /\ UNCHANGED <<a, b, m, run>>

Invm ==
    /\ op = "idle"
    /\ op' = "invm"
    /\ ret' = [uu |-> invm_uu(a, m), u128 |-> invm_u128(a, m)]
    /\ UNCHANGED <<a, b, m, run>>

\* the modulus n is m; debug_assert!(n % 2 == 1 && n >= &0)
Jacobi ==
    /\ op = "idle"
    /\ m % 2 = 1
    /\ op' = "jacobi"
    /\ ret' = [uu |-> jacobi_prim(a, m), u128 |-> jacobi_prim(a, m),
               big |-> jacobi_big(a, m)]
    /\ UNCHANGED <<a, b, m, run>>

Fac2 ==
    /\ op = "idle"
    /\ op' = "fac2"
    /\ ret' = [uu |-> fac2_uu(a), u128 |-> fac2_u128(a), big |-> fac2_big(a)]
    /\ UNCHANGED <<a, b, m, run>>

KernelNext == Addm \/ Subm \/ Mulm \/ Powm \/ Invm \/ Jacobi \/ Fac2

SpecKernel == KernelInit /\ [][KernelNext]_vars

(***************************************************************************)
(* Reference values, over the unbounded integers.                          *)
(***************************************************************************)
RECURSIVE Gcd(_, _)
Gcd(x, y) == IF y = 0 THEN x ELSE Gcd(y, x % y)

\* x^e mod n, by e multiplications
RECURSIVE PowMod(_, _, _)
PowMod(x, e, n) == IF e = 0 THEN 1 % n ELSE (PowMod(x, e - 1, n) * (x % n)) % n

\* the largest r in lo .. hi with r * r <= n, given lo * lo <= n
RECURSIVE RootIn(_, _, _)
RootIn(n, lo, hi) ==
    IF hi - lo <= 1 THEN (IF hi * hi <= n THEN hi ELSE lo)
    ELSE LET mid == (lo + hi) \div 2
         IN  IF mid * mid > n THEN RootIn(n, lo, mid - 1) ELSE RootIn(n, mid, hi)

FloorRoot(n) == RootIn(n, 0, IF n < 46340 THEN n ELSE 46340)

\* n is prime: n >= 2 and no d with 2 <= d and d * d <= n divides it
IsPrime(n) == n >= 2 /\ \A d \in 2 .. FloorRoot(n) : n % d # 0

\* the Legendre symbol of x modulo an odd prime p
Legendre(x, p) ==
    IF x % p = 0 THEN 0
    ELSE IF \E y \in 1 .. (p - 1) : (y * y) % p = x % p THEN 1
    ELSE -1

\* the largest k with 2^k dividing x, for x > 0
RECURSIVE TwoAdic(_)
TwoAdic(x) == IF x % 2 = 1 THEN 0 ELSE 1 + TwoAdic(x \div 2)

(***************************************************************************)
(* Properties of the kernel, checked under SpecKernel.                     *)
(***************************************************************************)
\* C3: for all a, b < 2^W and 1 <= m < 2^W, addm(a, b, m) is (a + b) mod m
\* over the unbounded integers, in the double-width, the 128-bit (checked add,
\* then the split sum) and the arbitrary-precision implementation.
AddmIsSumMod ==
    op = "addm" =>
        /\ ret.uu = (a + b) % m
        /\ ret.u128 = (a + b) % m
        /\ ret.big = (a + b) % m

\* the 128-bit addm took the fallback and its second branch, min - (m - max)
AddmSplitBranchTaken ==
    /\ op = "addm"
    /\ a + b >= Pow2(WordBits)
    /\ (a % m) + (b % m) >= m
    /\ ret.u128 = (a + b) % m

\* C4: for all a, b < 2^W and 1 <= m < 2^W, mulm(a, b, m) is (a * b) mod m
\* over the unbounded integers, in the double-width and in the 128-bit
\* implementation (checked multiplications, then shift-and-add on addm).
MulmIsProductMod ==
    op = "mulm" =>
        /\ ret.uu = (a * b) % m
        /\ ret.u128 = (a * b) % m

\* both checked multiplications of the 128-bit mulm overflowed
MulmShiftAddTaken ==
    /\ op = "mulm"
    /\ a * b >= Pow2(WordBits)
    /\ (a % m) * (b % m) >= Pow2(WordBits)
    /\ ret.u128 = (a * b) % m

\* C5: for all a, every exponent e >= 0 and every modulus m >= 1,
\* powm(a, e, m) is a^e mod m.
PowmIsPowerMod ==
    op = "powm" =>
        /\ ret.uu = PowMod(a, b, m)
        /\ ret.u128 = PowMod(a, b, m)

\* C6: addm, subm, mulm, powm and the value inside a Some of invm return a
\* canonical representative r with 0 <= r < m, for unreduced operands too.
Canonical(r) == 0 <= r /\ r < m

KernelResultsCanonical ==
    /\ op \in {"addm", "subm"} =>
           Canonical(ret.uu) /\ Canonical(ret.u128) /\ Canonical(ret.big)
    /\ op \in {"mulm", "powm"} => Canonical(ret.uu) /\ Canonical(ret.u128)
    /\ op = "invm" =>
           /\ is_some(ret.uu) => Canonical(unwrap(ret.uu))
           /\ is_some(ret.u128) => Canonical(unwrap(ret.u128))

\* C7: for all a, b and m >= 1, reduced or not, subm(a, b, m) is the
\* representative in [0, m) of a - b in Z/mZ.
SubmIsDifferenceMod ==
    op = "subm" =>
        /\ ret.uu = (a - b) % m
        /\ ret.u128 = (a - b) % m
        /\ ret.big = (a - b) % m

\* subm of unreduced operands with a < b, through the branch m - (rhs - lhs)
SubmBorrowTaken ==
    /\ op = "subm"
    /\ a < b
    /\ a >= m
    /\ a % m < b % m
    /\ ret.uu = (a - b) % m

\* C8: invm(a, m) is Some(x) exactly when gcd(a, m) = 1, and then
\* a * x = 1 (mod m); it is None when gcd(a, m) > 1.
InvmOk(r) ==
    /\ is_some(r) <=> Gcd(a, m) = 1
    /\ is_some(r) => (a * unwrap(r)) % m = 1 % m

InvmIsInverse == op = "invm" => InvmOk(ret.uu) /\ InvmOk(ret.u128)

\* an inverse other than 1 was found for an unreduced operand
InvmInverseFound ==
    /\ op = "invm"
    /\ a > m
    /\ is_some(ret.uu)
    /\ unwrap(ret.uu) > 1
    /\ ret.u128 = ret.uu

\* the boundary cases of C8: invm(0, m) is None and invm(1, m) is Some(1)
\* for m > 1; a part of InvmIsInverse stated on its own
InvmBoundary ==
    (op = "invm" /\ m > 1) =>
        /\ a = 0 => ret.uu = None /\ ret.u128 = None
        /\ a = 1 => ret.uu = Some(1) /\ ret.u128 = Some(1)

\* C9: for all a >= 0 and odd n >= 1, jacobi(a, n) is -1, 0 or 1; for an odd
\* prime n it is the Legendre symbol of a modulo n; and for n > 1 it is 0
\* exactly when gcd(a, n) > 1.
JacobiIsSymbol ==
    op = "jacobi" =>
        /\ ret.uu \in {-1, 0, 1}
        /\ IsPrime(m) => ret.uu = Legendre(a, m)
        /\ m > 1 => (ret.uu = 0 <=> Gcd(a, m) > 1)

\* a non-residue of an odd prime, given unreduced
JacobiNonResidue ==
    /\ op = "jacobi"
    /\ IsPrime(m)
    /\ a > m
    /\ ret.uu = -1

\* C10: fac2(a) is the k with a = 2^k * odd for a > 0 and is 0 for a = 0, and
\* the fixed-width and the arbitrary-precision implementations agree.
Fac2IsTwoAdic ==
    op = "fac2" =>
        /\ a > 0 => ret.uu = TwoAdic(a) /\ ret.u128 = TwoAdic(a) /\ ret.big = TwoAdic(a)
        /\ a = 0 => ret.uu = 0 /\ ret.u128 = 0 /\ ret.big = 0
        /\ ret.uu = ret.big /\ ret.u128 = ret.big

(***************************************************************************)
(* The primality specification: one call of is_prime64 on a target drawn   *)
(* from 0 .. MaxTarget (the table range below 2^8, the whole 16-bit range  *)
(* and the start of the 32-bit range), from the MaxWide values on either   *)
(* side of 2^32 (the end of the 32-bit range and the start of the 64-bit   *)
(* range), or from the strong pseudoprimes to base 2 listed below.         *)
(***************************************************************************)
MaxTarget == 200000
MaxWide == 150

\* 4409872741, 4443746401, 4536995653, 4550723101: composites (k+1)(2k+1)
\* above 2^32 that pass is_sprp to base 2
WidePseudoprimes ==
    {<<67289, 20837>>, <<67806, 12385>>, <<69229, 3909>>, <<69438, 34333>>}

WideTargets ==
    {<<Half - 1, Half - k>> : k \in 1 .. MaxWide}
        \cup {<<Half, k>> : k \in 0 .. MaxWide}
        \cup WidePseudoprimes

PrimeInit ==
    /\ op = "idle"
    /\ a \in {u64(x) : x \in 0 .. MaxTarget} \cup WideTargets
    /\ b = 0
    /\ m = 1
    /\ ret = NoRet
    /\ NoRun

IsPrime64 ==
    /\ op = "idle"
    /\ op' = "is_prime64"
    /\ ret' = [value |-> is_prime64(a)]
    /\ UNCHANGED <<a, b, m, run>>

PrimeNext == IsPrime64

SpecPrime == PrimeInit /\ [][PrimeNext]_vars

\* w mod d for 2 <= d <= 2^17, eight bits of the low half at a time
RemWide(w, d) ==
    LET r1 == w[1] % d
        r2 == ((r1 * 256) + (w[2] \div 256)) % d
    IN  ((r2 * 256) + (w[2] % 256)) % d

\* primality of w by trial division; beyond the narrow range w < 2^34, so a
\* composite w has a divisor below 2^17
IsPrimeWide(w) ==
    IF is_narrow(w) THEN IsPrime(narrow(w))
    ELSE \A d \in 2 .. Pow2(17) : RemWide(w, d) # 0

\* C2: is_prime64(n) is true exactly when n is prime: false for 0 and 1, true
\* for 2, false for every other even n, the table below 2^8, bases {2, 3} in
\* the 16-bit range, bases {2, 7, 61} in the 32-bit range and the seven bases
\* of WITNESS64 beyond.
IsPrime64IsPrimality == op = "is_prime64" => (ret.value <=> IsPrimeWide(a))

\* a composite beyond the 32-bit range that passes the test to base 2 was
\* rejected by the seven bases
IsPrime64RejectsPseudoprime ==
    /\ op = "is_prime64"
    /\ ~fits_u32(a)
    /\ u64_odd(a)
    /\ is_sprp_u64(a, 2)
    /\ ~IsPrimeWide(a)
    /\ ret.value = FALSE

\* a prime beyond the 32-bit range was accepted by the seven bases
IsPrime64AcceptsWidePrime ==
    /\ op = "is_prime64"
    /\ ~fits_u32(a)
    /\ IsPrimeWide(a)
    /\ ret.value = TRUE

(***************************************************************************)
(* factors64, the build without the big-table feature, step by step.       *)
(***************************************************************************)
\* BTreeMap::insert(k, v)
insert(map, k, v) == [x \in (DOMAIN map) \cup {k} |-> IF x = k THEN v ELSE map[x]]

\* *map.entry(k).or_insert(0) += 1
entry_add_one(map, k) ==
    insert(map, k, IF k \in DOMAIN map THEN map[k] + 1 ELSE 1)

\* a bound of trial division at half the square root
tsqrt_half(t) == (sqrt(t) \div 2) + 1

\* let tsqrt = target.sqrt() + 1
tsqrt(t) == sqrt(t) + 1

\* the division loop with the entry set, not incremented
RECURSIVE divide_out_no_count(_, _, _)
divide_out_no_count(r, p64, map) ==
    IF r % p64 = 0 THEN divide_out_no_count(r \div p64, p64, insert(map, p64, 1))
    ELSE <<r, map>>

\* while residual % p64 == 0 { residual = residual / p64; *entry += 1 }:
\* the pair <<residual, result>> after the loop
RECURSIVE divide_out(_, _, _)
divide_out(r, p64, map) ==
    IF r % p64 = 0 THEN divide_out(r \div p64, p64, entry_add_one(map, p64))
    ELSE <<r, map>>

\* the divisors d of n with 1 < d < n: what pollard_rho and squfof may return
\* as Some(d)
NontrivialDivisors(n) ==
    LET low == {d \in 2 .. sqrt(n) : n % d = 0}
    IN  low \cup {n \div d : d \in low}

\* const SQUFOF_MULTIPLIERS: [u16; 16]
SQUFOF_MULTIPLIERS ==
    <<1, 3, 5, 7, 11, 3 * 5, 3 * 7, 3 * 11, 5 * 7, 5 * 11, 7 * 11, 3 * 5 * 7,
      3 * 5 * 11, 3 * 7 * 11, 5 * 7 * 11, 3 * 5 * 7 * 11>>

\* the turn of SQUFOF without the bound on i / 5
squfof_turn_unbounded(k) == k % 5 = 0

\* i % 5 == 0 && (i / 5) < SQUFOF_MULTIPLIERS.len()
squfof_turn(k) == k % 5 = 0 /\ (k \div 5) < Len(SQUFOF_MULTIPLIERS)

\* Bounds of the runs: the small targets 1 .. MaxSmall; the hard targets
\* c * r with a cofactor c in 1 .. MaxCofactor and r a product of two or three
\* primes above the table; at most MaxTrials trials per composite residual.
MaxSmall == 2000
MaxCofactor == 6
MaxTrials == 80

\* primes above the small-prime table
LargePrimes == {257, 263, 65537}

HardResiduals ==
    {p * q : p \in {257, 263}, q \in LargePrimes} \cup {257 * 257 * 257, 257 * 263 * 269}

Targets ==
    (1 .. MaxSmall) \cup {c * r : c \in 1 .. MaxCofactor, r \in HardResiduals \cup {65537}}

FactorInit ==
    /\ op = "idle"
    /\ a = 0
    /\ b = 0
    /\ m = 1
    /\ ret = NoRet
    /\ pc = "call"
    /\ target \in Targets
    /\ result = EmptyMap
    /\ residual = 0
    /\ factored = FALSE
    /\ pidx = 0
    /\ todo = <<>>
    /\ cur = 0
    /\ i = 0

\* lines 128-143: the factors of 2, the shortcut for a prime target, and the
\* start of trial division at the second table prime (skip(1))
Enter ==
    /\ pc = "call"
    /\ LET f2 == trailing_zeros(64, target)
       IN  IF f2 = 0 /\ is_prime64(u64(target))
           THEN /\ result' = insert(result, target, 1)
                /\ pc' = "done"
                /\ UNCHANGED <<residual, factored, pidx>>
           ELSE /\ result' = IF f2 = 0 THEN result ELSE insert(result, 2, f2)
                /\ residual' = target \div Pow2(f2)
                /\ factored' = FALSE
                /\ pidx' = 2
                /\ pc' = "trial"
    /\ UNCHANGED <<target, todo, cur, i, kernel>>

\* lines 146-161: one iteration of `for &p in SMALL_PRIMES.iter().skip(1)`
TrialDivide ==
    /\ pc = "trial"
    /\ pidx <= Len(SMALL_PRIMES)
    /\ LET p64 == SMALL_PRIMES[pidx]
           after == divide_out(residual, p64, result)
       IN  IF p64 > tsqrt(target)
           THEN /\ factored' = TRUE
                /\ pc' = "tried"
                /\ UNCHANGED <<residual, result, pidx>>
           ELSE /\ residual' = after[1]
                /\ result' = after[2]
                /\ IF after[1] = 1
                   THEN factored' = TRUE /\ pc' = "tried" /\ pidx' = pidx
                   ELSE factored' = factored /\ pc' = "trial" /\ pidx' = pidx + 1
    /\ UNCHANGED <<target, todo, cur, i, kernel>>

\* the table is exhausted: the for loop ends with factored unchanged
TrialExhausted ==
    /\ pc = "trial"
    /\ pidx > Len(SMALL_PRIMES)
    /\ pc' = "tried"
    /\ UNCHANGED <<target, result, residual, factored, pidx, todo, cur, i, kernel>>

\* lines 198-206: return when factored, else start the work stack
AfterTrial ==
    /\ pc = "tried"
    /\ IF factored
       THEN /\ result' = IF residual # 1 THEN insert(result, residual, 1) ELSE result
            /\ pc' = "done"
            /\ todo' = todo
       ELSE /\ todo' = <<residual>>
            /\ pc' = "pop"
            /\ result' = result
    /\ UNCHANGED <<target, residual, factored, pidx, cur, i, kernel>>

\* lines 225-229: `while let Some(target) = todo.pop()`; a prime entry is
\* recorded, a composite one starts the search at i = 1
Pop ==
    /\ pc = "pop"
    /\ IF todo = <<>>
       THEN /\ pc' = "done"
            /\ UNCHANGED <<result, todo, cur, i>>
       ELSE LET top == todo[Len(todo)]
            IN  /\ cur' = top
                /\ todo' = SubSeq(todo, 1, Len(todo) - 1)
                /\ IF is_prime64(u64(top))
                   THEN /\ result' = entry_add_one(result, top)
                        /\ pc' = "pop"
                        /\ i' = i
                   ELSE /\ result' = result
                        /\ pc' = "search"
                        /\ i' = 1
    /\ UNCHANGED <<target, residual, factored, pidx, kernel>>

\* the push of the cofactor twice
push_factors_cofactor_twice(stack, n, divisor) ==
    stack \o <<n \div divisor, n \div divisor>>

\* the push that forgets the cofactor
push_factors_divisor_only(stack, n, divisor) == stack \o <<divisor>>

\* lines 246-247: todo.push(divisor); todo.push(target / divisor)
push_factors(stack, n, divisor) == stack \o <<divisor, n \div divisor>>

\* lines 232-236: squfof returns Some(p)
SqufofFound ==
    /\ pc = "search"
    /\ squfof_turn(i)
    /\ \E divisor \in NontrivialDivisors(cur) :
           todo' = push_factors(todo, cur, divisor)
    /\ pc' = "pop"
    /\ UNCHANGED <<target, result, residual, factored, pidx, cur, i, kernel>>

\* lines 238-242: pollard_rho, on fresh start and offset below target,
\* returns Some(p)
RhoFound ==
    /\ pc = "search"
    /\ ~squfof_turn(i)
    /\ \E divisor \in NontrivialDivisors(cur) :
           todo' = push_factors(todo, cur, divisor)
    /\ pc' = "pop"
    /\ UNCHANGED <<target, result, residual, factored, pidx, cur, i, kernel>>

\* lines 232-244: the trial returns None; i += 1
TrialFailed ==
    /\ pc = "search"
    /\ i < MaxTrials
    /\ i' = i + 1
    /\ UNCHANGED <<pc, target, result, residual, factored, pidx, todo, cur, kernel>>

FactorNext ==
    \/ Enter
    \/ TrialDivide
    \/ TrialExhausted
    \/ AfterTrial
    \/ Pop
    \/ SqufofFound
    \/ RhoFound
    \/ TrialFailed

SpecFactor == FactorInit /\ [][FactorNext]_vars

\* the product of p^e over the entries of a map
RECURSIVE Power(_, _)
Power(x, e) == IF e = 0 THEN 1 ELSE x * Power(x, e - 1)

RECURSIVE MapProduct(_)
MapProduct(map) ==
    IF DOMAIN map = {} THEN 1
    ELSE LET k == CHOOSE x \in DOMAIN map : TRUE
         IN  Power(k, map[k]) * MapProduct([x \in (DOMAIN map) \ {k} |-> map[x]])

\* C1: for every T >= 1 the map returned by factors64(T) has only prime keys
\* and the product of p^e over its entries is T (the empty map for T = 1),
\* whichever divisors d with 1 < d < n, d | n the sub-factor searches return.
Factors64IsFactorization ==
    pc = "done" =>
        /\ \A p \in DOMAIN result : IsPrime(p) /\ result[p] >= 1
        /\ MapProduct(result) = target

\* a run that went through the work stack and counted a hard prime twice
Factors64HardSquare ==
    /\ pc = "done"
    /\ i >= 1
    /\ \E p \in DOMAIN result : p > 256 /\ result[p] >= 2
    /\ Cardinality(DOMAIN result) >= 2

\* factors64(1) is the empty map; a part of Factors64IsFactorization
Factors64OfOne == (pc = "done" /\ target = 1) => result = EmptyMap

(***************************************************************************)
(* Determinism of factors64.                                               *)
(***************************************************************************)
\* all divisors of n
Divisors(n) ==
    LET low == {d \in 1 .. FloorRoot(n) : n % d = 0}
    IN  low \cup {n \div d : d \in low}

\* the exponent of p in n
RECURSIVE Multiplicity(_, _)
Multiplicity(n, p) == IF n % p = 0 THEN 1 + Multiplicity(n \div p, p) ELSE 0

\* the prime factorization of n as a map
PrimeFactorMap(n) ==
    [p \in {d \in Divisors(n) : IsPrime(d)} |-> Multiplicity(n, p)]

\* C11: the map returned by factors64(T) depends on T only: whatever the
\* random draws and whichever trials of pollard_rho / squfof fail or succeed
\* (and with whichever divisor), every terminating run on T returns the one
\* prime factorization of T, so two such runs return equal maps.
Factors64OutputDeterministic == pc = "done" => result = PrimeFactorMap(target)

\* a finished run on a target with three primes above the table, found after
\* failed trials and a SQUFOF turn
Factors64ThreeHardPrimes ==
    /\ pc = "done"
    /\ i >= 5
    /\ Cardinality({p \in DOMAIN result : p > 256}) >= 3

(***************************************************************************)
(* The build with the big-table feature: the extended small-prime table,   *)
(* the wheel tables and the primality tests that next_prime, prev_prime,   *)
(* gen_prime and prime_pi_bounds rely on.                                  *)
(***************************************************************************)
\* tables::SMALL_PRIMES with the big-table feature: all primes below 8168
SMALL_PRIMES_BIG ==
    <<2, 3, 5, 7, 11, 13, 17, 19, 23, 29, 31, 37, 41, 43, 47, 53, 59, 61,
      67, 71, 73, 79, 83, 89, 97, 101, 103, 107, 109, 113, 127, 131, 137,
      139, 149, 151, 157, 163, 167, 173, 179, 181, 191, 193, 197, 199,
      211, 223, 227, 229, 233, 239, 241, 251, 257, 263, 269, 271, 277,
      281, 283, 293, 307, 311, 313, 317, 331, 337, 347, 349, 353, 359,
      367, 373, 379, 383, 389, 397, 401, 409, 419, 421, 431, 433, 439,
      443, 449, 457, 461, 463, 467, 479, 487, 491, 499, 503, 509, 521,
      523, 541, 547, 557, 563, 569, 571, 577, 587, 593, 599, 601, 607,
      613, 617, 619, 631, 641, 643, 647, 653, 659, 661, 673, 677, 683,
      691, 701, 709, 719, 727, 733, 739, 743, 751, 757, 761, 769, 773,
      787, 797, 809, 811, 821, 823, 827, 829, 839, 853, 857, 859, 863,
      877, 881, 883, 887, 907, 911, 919, 929, 937, 941, 947, 953, 967,
      971, 977, 983, 991, 997, 1009, 1013, 1019, 1021, 1031, 1033, 1039,
      1049, 1051, 1061, 1063, 1069, 1087, 1091, 1093, 1097, 1103, 1109,
      1117, 1123, 1129, 1151, 1153, 1163, 1171, 1181, 1187, 1193, 1201,
      1213, 1217, 1223, 1229, 1231, 1237, 1249, 1259, 1277, 1279, 1283,
      1289, 1291, 1297, 1301, 1303, 1307, 1319, 1321, 1327, 1361, 1367,
      1373, 1381, 1399, 1409, 1423, 1427, 1429, 1433, 1439, 1447, 1451,
      1453, 1459, 1471, 1481, 1483, 1487, 1489, 1493, 1499, 1511, 1523,
      1531, 1543, 1549, 1553, 1559, 1567, 1571, 1579, 1583, 1597, 1601,
      1607, 1609, 1613, 1619, 1621, 1627, 1637, 1657, 1663, 1667, 1669,
      1693, 1697, 1699, 1709, 1721, 1723, 1733, 1741, 1747, 1753, 1759,
      1777, 1783, 1787, 1789, 1801, 1811, 1823, 1831, 1847, 1861, 1867,
      1871, 1873, 1877, 1879, 1889, 1901, 1907, 1913, 1931, 1933, 1949,
      1951, 1973, 1979, 1987, 1993, 1997, 1999, 2003, 2011, 2017, 2027,
      2029, 2039, 2053, 2063, 2069, 2081, 2083, 2087, 2089, 2099, 2111,
      2113, 2129, 2131, 2137, 2141, 2143, 2153, 2161, 2179, 2203, 2207,
      2213, 2221, 2237, 2239, 2243, 2251, 2267, 2269, 2273, 2281, 2287,
      2293, 2297, 2309, 2311, 2333, 2339, 2341, 2347, 2351, 2357, 2371,
      2377, 2381, 2383, 2389, 2393, 2399, 2411, 2417, 2423, 2437, 2441,
      2447, 2459, 2467, 2473, 2477, 2503, 2521, 2531, 2539, 2543, 2549,
      2551, 2557, 2579, 2591, 2593, 2609, 2617, 2621, 2633, 2647, 2657,
      2659, 2663, 2671, 2677, 2683, 2687, 2689, 2693, 2699, 2707, 2711,
      2713, 2719, 2729, 2731, 2741, 2749, 2753, 2767, 2777, 2789, 2791,
      2797, 2801, 2803, 2819, 2833, 2837, 2843, 2851, 2857, 2861, 2879,
      2887, 2897, 2903, 2909, 2917, 2927, 2939, 2953, 2957, 2963, 2969,
      2971, 2999, 3001, 3011, 3019, 3023, 3037, 3041, 3049, 3061, 3067,
      3079, 3083, 3089, 3109, 3119, 3121, 3137, 3163, 3167, 3169, 3181,
      3187, 3191, 3203, 3209, 3217, 3221, 3229, 3251, 3253, 3257, 3259,
      3271, 3299, 3301, 3307, 3313, 3319, 3323, 3329, 3331, 3343, 3347,
      3359, 3361, 3371, 3373, 3389, 3391, 3407, 3413, 3433, 3449, 3457,
      3461, 3463, 3467, 3469, 3491, 3499, 3511, 3517, 3527, 3529, 3533,
      3539, 3541, 3547, 3557, 3559, 3571, 3581, 3583, 3593, 3607, 3613,
      3617, 3623, 3631, 3637, 3643, 3659, 3671, 3673, 3677, 3691, 3697,
      3701, 3709, 3719, 3727, 3733, 3739, 3761, 3767, 3769, 3779, 3793,
      3797, 3803, 3821, 3823, 3833, 3847, 3851, 3853, 3863, 3877, 3881,
      3889, 3907, 3911, 3917, 3919, 3923, 3929, 3931, 3943, 3947, 3967,
      3989, 4001, 4003, 4007, 4013, 4019, 4021, 4027, 4049, 4051, 4057,
      4073, 4079, 4091, 4093, 4099, 4111, 4127, 4129, 4133, 4139, 4153,
      4157, 4159, 4177, 4201, 4211, 4217, 4219, 4229, 4231, 4241, 4243,
      4253, 4259, 4261, 4271, 4273, 4283, 4289, 4297, 4327, 4337, 4339,
      4349, 4357, 4363, 4373, 4391, 4397, 4409, 4421, 4423, 4441, 4447,
      4451, 4457, 4463, 4481, 4483, 4493, 4507, 4513, 4517, 4519, 4523,
      4547, 4549, 4561, 4567, 4583, 4591, 4597, 4603, 4621, 4637, 4639,
      4643, 4649, 4651, 4657, 4663, 4673, 4679, 4691, 4703, 4721, 4723,
      4729, 4733, 4751, 4759, 4783, 4787, 4789, 4793, 4799, 4801, 4813,
      4817, 4831, 4861, 4871, 4877, 4889, 4903, 4909, 4919, 4931, 4933,
      4937, 4943, 4951, 4957, 4967, 4969, 4973, 4987, 4993, 4999, 5003,
      5009, 5011, 5021, 5023, 5039, 5051, 5059, 5077, 5081, 5087, 5099,
      5101, 5107, 5113, 5119, 5147, 5153, 5167, 5171, 5179, 5189, 5197,
      5209, 5227, 5231, 5233, 5237, 5261, 5273, 5279, 5281, 5297, 5303,
      5309, 5323, 5333, 5347, 5351, 5381, 5387, 5393, 5399, 5407, 5413,
      5417, 5419, 5431, 5437, 5441, 5443, 5449, 5471, 5477, 5479, 5483,
      5501, 5503, 5507, 5519, 5521, 5527, 5531, 5557, 5563, 5569, 5573,
      5581, 5591, 5623, 5639, 5641, 5647, 5651, 5653, 5657, 5659, 5669,
      5683, 5689, 5693, 5701, 5711, 5717, 5737, 5741, 5743, 5749, 5779,
      5783, 5791, 5801, 5807, 5813, 5821, 5827, 5839, 5843, 5849, 5851,
      5857, 5861, 5867, 5869, 5879, 5881, 5897, 5903, 5923, 5927, 5939,
      5953, 5981, 5987, 6007, 6011, 6029, 6037, 6043, 6047, 6053, 6067,
      6073, 6079, 6089, 6091, 6101, 6113, 6121, 6131, 6133, 6143, 6151,
      6163, 6173, 6197, 6199, 6203, 6211, 6217, 6221, 6229, 6247, 6257,
      6263, 6269, 6271, 6277, 6287, 6299, 6301, 6311, 6317, 6323, 6329,
      6337, 6343, 6353, 6359, 6361, 6367, 6373, 6379, 6389, 6397, 6421,
      6427, 6449, 6451, 6469, 6473, 6481, 6491, 6521, 6529, 6547, 6551,
      6553, 6563, 6569, 6571, 6577, 6581, 6599, 6607, 6619, 6637, 6653,
      6659, 6661, 6673, 6679, 6689, 6691, 6701, 6703, 6709, 6719, 6733,
      6737, 6761, 6763, 6779, 6781, 6791, 6793, 6803, 6823, 6827, 6829,
      6833, 6841, 6857, 6863, 6869, 6871, 6883, 6899, 6907, 6911, 6917,
      6947, 6949, 6959, 6961, 6967, 6971, 6977, 6983, 6991, 6997, 7001,
      7013, 7019, 7027, 7039, 7043, 7057, 7069, 7079, 7103, 7109, 7121,
      7127, 7129, 7151, 7159, 7177, 7187, 7193, 7207, 7211, 7213, 7219,
      7229, 7237, 7243, 7247, 7253, 7283, 7297, 7307, 7309, 7321, 7331,
      7333, 7349, 7351, 7369, 7393, 7411, 7417, 7433, 7451, 7457, 7459,
      7477, 7481, 7487, 7489, 7499, 7507, 7517, 7523, 7529, 7537, 7541,
      7547, 7549, 7559, 7561, 7573, 7577, 7583, 7589, 7591, 7603, 7607,
      7621, 7639, 7643, 7649, 7669, 7673, 7681, 7687, 7691, 7699, 7703,
      7717, 7723, 7727, 7741, 7753, 7757, 7759, 7789, 7793, 7817, 7823,
      7829, 7841, 7853, 7867, 7873, 7877, 7879, 7883, 7901, 7907, 7919,
      7927, 7933, 7937, 7949, 7951, 7963, 7993, 8009, 8011, 8017, 8039,
      8053, 8059, 8069, 8081, 8087, 8089, 8093, 8101, 8111, 8117, 8123,
      8147, 8161, 8167>>

\* slice::binary_search on a sorted table: Ok(pos) when tab[pos] = x, else
\* Err(pos) with pos the number of entries below x (pos counts from 0);
\* lo and hi delimit the entries not yet compared
RECURSIVE binary_search_in(_, _, _, _)
binary_search_in(tab, x, lo, hi) ==
    IF lo >= hi THEN [ok |-> FALSE, pos |-> lo]
    ELSE LET mid == (lo + hi) \div 2
         IN  IF tab[mid + 1] = x THEN [ok |-> TRUE, pos |-> mid]
             ELSE IF tab[mid + 1] < x THEN binary_search_in(tab, x, mid + 1, hi)
             ELSE binary_search_in(tab, x, lo, mid)

binary_search(tab, x) == binary_search_in(tab, x, 0, Len(tab))

\* SMALL_PRIMES.last().unwrap()
last(tab) == tab[Len(tab)]

\* tables::WHEEL_SIZE, WHEEL_NEXT, WHEEL_PREV: the wheel on 2 * 3 * 5; entry
\* i (stored at i + 1) is the distance from residue i to the next / previous
\* residue coprime to the wheel
WHEEL_SIZE == 30

WHEEL_NEXT ==
    <<1, 6, 5, 4, 3, 2, 1, 4, 3, 2, 1, 2, 1, 4, 3,
      2, 1, 2, 1, 4, 3, 2, 1, 6, 5, 4, 3, 2, 1, 2>>

WHEEL_PREV ==
    <<1, 2, 1, 2, 3, 4, 5, 6, 1, 2, 3, 4, 1, 2, 1,
      2, 3, 4, 1, 2, 1, 2, 3, 4, 1, 2, 3, 4, 5, 6>>

\* is_prime64 of the big-table build on a target below 2^32 (an integer):
\* the shortcuts, the table below 8167, then one SPRP test on a hashed base.
\* The bases of MILLER_RABIN_BASE32 are not in the sources; by their contract
\* the hashed test decides primality, as the classical test of the table-less
\* build does, which stands for it here.
is_prime64_big(t) ==
    IF t < 1 THEN FALSE
    ELSE IF t % 2 = 0 THEN t = 2
    ELSE IF t < 8167 THEN binary_search(SMALL_PRIMES_BIG, t).ok
    ELSE is_prime64(u64(t))

\* is_prime(&t, config).probably() of the default buffer, for t below 2^64
is_prime_probably(t) == is_prime64_big(t)

(***************************************************************************)
(* next_prime and prev_prime on an unsigned type T of `bits` bits.         *)
(***************************************************************************)
\* T::from_u16(v): None when v does not fit in T
from_u16(bits, v) == IF v < Pow2(bits) THEN Some(v) ELSE None

\* T::checked_add
checked_add_in(bits, x, y) == IF x + y < Pow2(bits) THEN Some(x + y) ELSE None

\* target <= &T::from_u8(255).unwrap() || target < &T::from_u16(last).unwrap()
in_table_range(t) == t <= 255 \/ t < last(SMALL_PRIMES_BIG)

\* the turn of next_prime that leaves the residue where it was
next_wheel_step_stale(bits, st) ==
    LET offset == WHEEL_NEXT[st[2] + 1]
        sum == checked_add_in(bits, st[1], offset)
    IN  IF is_some(sum) THEN Some(<<unwrap(sum), st[2]>>) ELSE None

\* one turn of the loop of next_prime from <<t, i>>: None on overflow, else
\* the pair after `t = t.checked_add(offset)?; i = i.addm(offset, &WHEEL_SIZE)`
next_wheel_step(bits, st) ==
    LET offset == WHEEL_NEXT[st[2] + 1]
        sum == checked_add_in(bits, st[1], offset)
    IN  IF is_some(sum) THEN Some(<<unwrap(sum), addm_uu(st[2], offset, WHEEL_SIZE)>>)
        ELSE None

RECURSIVE next_wheel_loop(_, _)
next_wheel_loop(bits, st) ==
    LET after == next_wheel_step(bits, st)
    IN  IF ~is_some(after) THEN None
        ELSE IF is_prime_probably(unwrap(after)[1]) THEN Some(unwrap(after)[1])
        ELSE next_wheel_loop(bits, unwrap(after))

\* next_prime that takes the table entry at the position found
next_prime_same_pos(bits, t) ==
    IF in_table_range(t)
    THEN LET found == binary_search(SMALL_PRIMES_BIG, t)
         IN  from_u16(bits, SMALL_PRIMES_BIG[found.pos + 1])
    ELSE next_wheel_loop(bits, <<t, t % WHEEL_SIZE>>)

next_prime(bits, t) ==
    IF in_table_range(t)
    THEN LET found == binary_search(SMALL_PRIMES_BIG, t)
             next == IF found.ok THEN SMALL_PRIMES_BIG[found.pos + 1 + 1]
                     ELSE SMALL_PRIMES_BIG[found.pos + 1]
         IN  from_u16(bits, next)
    ELSE next_wheel_loop(bits, <<t, t % WHEEL_SIZE>>)

\* one turn of the loop of prev_prime from <<t, i, wrapped>>: `t = t - offset`
\* is unchecked, so a difference below zero wraps and is recorded
prev_wheel_step(bits, st) ==
    LET offset == WHEEL_PREV[st[2] + 1]
    IN  <<(st[1] - offset) % Pow2(bits), subm_uu(st[2], offset, WHEEL_SIZE),
          st[3] \/ st[1] < offset>>

RECURSIVE prev_wheel_loop(_, _)
prev_wheel_loop(bits, st) ==
    LET after == prev_wheel_step(bits, st)
    IN  IF is_prime_probably(after[1])
        THEN [value |-> Some(after[1]), wrapped |-> after[3]]
        ELSE prev_wheel_loop(bits, after)

\* prev_prime whose early return is for t < 2 only
prev_prime_run_late_none(bits, t) ==
    IF t < 2 THEN [value |-> None, wrapped |-> FALSE]
    ELSE IF in_table_range(t)
    THEN LET found == binary_search(SMALL_PRIMES_BIG, t)
             prev == SMALL_PRIMES_BIG[Max(found.pos - 1, 0) + 1]
         IN  [value |-> Some(unwrap(from_u16(bits, prev))), wrapped |-> FALSE]
    ELSE prev_wheel_loop(bits, <<t, t % WHEEL_SIZE, FALSE>>)

\* prev_prime, with the record of a wrapped subtraction
prev_prime_run(bits, t) ==
    IF t <= 1 + 1 THEN [value |-> None, wrapped |-> FALSE]
    ELSE IF in_table_range(t)
    THEN LET found == binary_search(SMALL_PRIMES_BIG, t)
             prev == IF found.ok THEN SMALL_PRIMES_BIG[found.pos - 1 + 1]
                     ELSE SMALL_PRIMES_BIG[found.pos - 1 + 1]
         IN  [value |-> Some(unwrap(from_u16(bits, prev))), wrapped |-> FALSE]
    ELSE prev_wheel_loop(bits, <<t, t % WHEEL_SIZE, FALSE>>)

prev_prime(bits, t) == prev_prime_run(bits, t).value

(***************************************************************************)
(* The specification of the prime walks: one call of next_prime or         *)
(* prev_prime on a target t of a type of b bits. The u8 targets are all of *)
(* 0 .. 255; the u16 targets are 0 .. MaxWalk (the table path and the      *)
(* start of the wheel path) and the MaxTop largest values of the type      *)
(* (the overflow of next_prime).                                           *)
(***************************************************************************)
MaxWalk == 9000
MaxTop == 600

WalkTargets(bits) ==
    IF bits = 8 THEN 0 .. 255
    ELSE (0 .. MaxWalk) \cup ((Pow2(bits) - MaxTop) .. (Pow2(bits) - 1))

WalkInit ==
    /\ op = "idle"
    /\ b \in {8, 16}
    /\ a \in WalkTargets(b)
    /\ m = 1
    /\ ret = NoRet
    /\ NoRun

NextPrime ==
    /\ op = "idle"
    /\ op' = "next_prime"
    /\ ret' = [value |-> next_prime(b, a)]
    /\ UNCHANGED <<a, b, m, run>>

PrevPrime ==
    /\ op = "idle"
    /\ op' = "prev_prime"
    /\ ret' = prev_prime_run(b, a)
    /\ UNCHANGED <<a, b, m, run>>

WalkNext == NextPrime \/ PrevPrime

SpecWalk == WalkInit /\ [][WalkNext]_vars

\* C12: next_prime(t) is Some(p) with p the smallest prime above t whenever a
\* prime above t fits in T, on the table path and on the wheel path, and None
\* exactly when no prime above t fits in T.
NextPrimeIsLeastAbove ==
    op = "next_prime" =>
        IF is_some(ret.value)
        THEN LET p == unwrap(ret.value)
             IN  /\ a < p /\ p < Pow2(b)
                 /\ IsPrime(p)
                 /\ \A q \in (a + 1) .. (p - 1) : ~IsPrime(q)
        ELSE \A q \in (a + 1) .. (Pow2(b) - 1) : ~IsPrime(q)

\* next_prime met the overflow of the wheel path: a u16 target at or above
\* the largest 16-bit prime gave None
NextPrimeOverflowed ==
    /\ op = "next_prime"
    /\ b = 16
    /\ ~in_table_range(a)
    /\ ret.value = None

\* C13: prev_prime(t) is None if and only if t <= 2; for t >= 3 it is Some(p)
\* with p the largest prime below t, on the table path (Ok and Err) and on
\* the wheel path, whose subtraction never goes below zero.
PrevPrimeIsGreatestBelow ==
    op = "prev_prime" =>
        /\ ret.value = None <=> a <= 2
        /\ a >= 3 =>
               LET p == unwrap(ret.value)
               IN  /\ p < a
                   /\ IsPrime(p)
                   /\ \A q \in (p + 1) .. (a - 1) : ~IsPrime(q)
        /\ ~ret.wrapped

\* prev_prime walked the wheel down from a composite target
PrevPrimeOnWheel ==
    /\ op = "prev_prime"
    /\ ~in_table_range(a)
    /\ ~IsPrime(a)
    /\ is_some(ret.value)
    /\ unwrap(ret.value) < a - 6

(***************************************************************************)
(* moebius_mu.                                                             *)
(***************************************************************************)
\* tables::MOEBIUS_ODD: four 64-bit words, each written as its bits from the
\* lowest; the two bits at position n - 1 of word (n - 1) >> 6 hold mu(n) + 1
\* for odd n below 256
MOEBIUS_ODD ==
    <<<<0, 1, 0, 0, 0, 0, 0, 0, 1, 0, 0, 0, 0, 0, 0, 1, 0, 0, 0, 0, 0, 1, 0, 0, 1, 0, 1, 0, 0, 0, 0, 0,
       0, 1, 0, 1, 0, 0, 0, 1, 0, 0, 0, 0, 1, 0, 0, 0, 1, 0, 0, 1, 0, 0, 0, 1, 0, 1, 0, 0, 0, 0, 1, 0>>,
      <<0, 1, 0, 0, 0, 1, 0, 0, 0, 0, 1, 0, 0, 1, 0, 0, 1, 0, 0, 0, 0, 1, 0, 1, 0, 0, 0, 1, 0, 1, 0, 1,
       0, 0, 1, 0, 0, 0, 0, 0, 0, 0, 0, 0, 0, 0, 0, 1, 0, 0, 0, 1, 1, 0, 0, 1, 1, 0, 0, 1, 1, 0, 0, 0>>,
      <<0, 1, 0, 0, 0, 1, 1, 0, 0, 0, 0, 0, 0, 1, 0, 1, 0, 1, 1, 0, 0, 0, 0, 0, 1, 0, 0, 1, 0, 0, 0, 1,
       0, 1, 0, 0, 0, 0, 0, 0, 1, 0, 1, 0, 0, 0, 1, 0, 0, 1, 0, 0, 0, 0, 0, 1, 0, 1, 0, 1, 1, 0, 0, 0>>,
      <<0, 0, 0, 0, 0, 0, 0, 0, 0, 1, 0, 1, 0, 1, 1, 0, 0, 1, 0, 0, 0, 1, 0, 1, 0, 1, 0, 1, 0, 1, 0, 0,
       1, 0, 0, 0, 0, 0, 0, 0, 0, 0, 0, 1, 0, 1, 0, 0, 0, 0, 1, 0, 1, 0, 0, 1, 0, 1, 0, 0, 0, 1, 0, 0>>>>

\* (m & (3 << shift)) >> shift on a 64-bit word: the bits shifted beyond the
\* word are lost
two_bits_at(word, shift) ==
    word[shift + 1] + (IF shift + 2 <= 64 THEN 2 * word[shift + 2] ELSE 0)

\* factors(target, strict) of the default buffer when it returns Ok: the
\* factor map of the target
factors_strict(n) ==
    LET low == {d \in 1 .. sqrt(n) : n % d = 0}
        divisors == low \cup {n \div d : d \in low}
        primes == {d \in divisors : d > 1 /\ \A e \in divisors : e = 1 \/ e = d \/ d % e # 0}
    IN  [p \in primes |-> Multiplicity(n, p)]

\* the full factorization path of moebius_mu
mu_by_factors(n) ==
    LET map == factors_strict(n)
    IN  IF \E p \in DOMAIN map : map[p] > 1 THEN 0
        ELSE IF Cardinality(DOMAIN map) % 2 = 0 THEN 1 ELSE -1

\* the odd part of moebius_mu without the shortcut on 9, 25 and 49 and with
\* the parity of the number of factors reversed
moebius_mu_odd_reversed(n) ==
    IF n - 1 < 256
    THEN two_bits_at(MOEBIUS_ODD[((n - 1) \div 64) + 1], (n - 1) % 64) - 1
    ELSE -mu_by_factors(n)

\* moebius_mu on an odd target
moebius_mu_odd(n) ==
    IF n - 1 < 256
    THEN two_bits_at(MOEBIUS_ODD[((n - 1) \div 64) + 1], (n - 1) % 64) - 1
    ELSE IF n % 9 = 0 \/ n % 25 = 0 \/ n % 49 = 0 THEN 0
    ELSE mu_by_factors(n)

\* moebius_mu: an even target is 0 when 4 divides it, else the opposite of
\* the value of its half
RECURSIVE moebius_mu(_)
moebius_mu(n) ==
    IF n % 2 = 0
    THEN IF n % 4 = 0 THEN 0 ELSE -moebius_mu(n \div 2)
    ELSE moebius_mu_odd(n)

(***************************************************************************)
(* The Moebius specification: one call of moebius_mu on a target drawn     *)
(* from 1 .. MaxMu or from the larger targets listed below.                *)
(***************************************************************************)
MaxMu == 6000

\* a square of a prime above the big table, squares of 3, 5, 7 times large
\* primes, and square-free products of large primes
MuLargeTargets ==
    {8081 * 8081, 9 * 65537, 25 * 65537, 49 * 65537, 2 * 49 * 65537,
     257 * 263, 2 * 257 * 263, 257 * 263 * 269, 257 * 257 * 263, 65537,
     2 * 65537, 3 * 5 * 7 * 11 * 13 * 17 * 19, 121 * 65537}

MuInit ==
    /\ op = "idle"
    /\ a \in (1 .. MaxMu) \cup MuLargeTargets
    /\ b = 0
    /\ m = 1
    /\ ret = NoRet
    /\ NoRun

MoebiusMu ==
    /\ op = "idle"
    /\ op' = "moebius_mu"
    /\ ret' = [value |-> moebius_mu(a)]
    /\ UNCHANGED <<a, b, m, run>>

MuNext == MoebiusMu

SpecMu == MuInit /\ [][MuNext]_vars

\* the Moebius function: 0 when a square above 1 divides n, else -1 to the
\* number of primes dividing n
Mu(n) ==
    IF \E d \in 2 .. FloorRoot(n) : n % (d * d) = 0 THEN 0
    ELSE IF Cardinality({d \in Divisors(n) : IsPrime(d)}) % 2 = 0 THEN 1 ELSE -1

small_primes_of(entry) == IF entry = 8 THEN SMALL_PRIMES ELSE SMALL_PRIMES_BIG

\* the floating-point estimates of the targets above the table, which are
\* not evaluated here
Estimated == <<"lo", "hi">>

\* prime_pi_bounds that returns the position found
prime_pi_bounds_pos(entry, x) ==
    IF x <= last(small_primes_of(entry))
    THEN LET pos == binary_search(small_primes_of(entry), x % Pow2(entry))
         IN  <<pos.pos, pos.pos>>
    ELSE Estimated

prime_pi_bounds(entry, x) ==
    IF x <= last(small_primes_of(entry))
    THEN LET pos == binary_search(small_primes_of(entry), x % Pow2(entry))
             n == IF pos.ok THEN pos.pos + 1 ELSE pos.pos
         IN  <<n, n>>
    ELSE Estimated

\* The specification: one call of prime_pi_bounds on a target of 0 .. MaxPi,
\* which goes beyond the last prime of the big table.
MaxPi == 8300

PiInit ==
    /\ op = "idle"
    /\ a \in 0 .. MaxPi
    /\ b \in {8, 16}
    /\ m = 1
    /\ ret = NoRet
    /\ NoRun

PrimePiBounds ==
    /\ op = "idle"
    /\ op' = "prime_pi_bounds"
    /\ ret' = [value |-> prime_pi_bounds(b, a)]
    /\ UNCHANGED <<a, b, m, run>>

PiNext == PrimePiBounds

SpecPi == PiInit /\ [][PiNext]_vars

\* the primes up to the largest table prime, and the number of primes <= x
PrimesInTable == {p \in 2 .. 8167 : IsPrime(p)}
PrimeCount(x) == Cardinality({p \in PrimesInTable : p <= x})
LargestTablePrime(entry) == IF entry = 8 THEN 251 ELSE 8167

\* C16: for 0 <= x <= the largest prime of the small-prime table,
\* prime_pi_bounds(x) is (c, c) with c the number of primes <= x, whether x
\* is a table prime or not, x = 0 and x = 1 included.
PrimePiBoundsExact ==
    (op = "prime_pi_bounds" /\ a <= LargestTablePrime(b)) =>
        ret.value = <<PrimeCount(a), PrimeCount(a)>>

\* a composite target of the big table got an exact count
PrimePiBoundsOfComposite ==
    /\ op = "prime_pi_bounds"
    /\ b = 16
    /\ 256 < a /\ a < 8167
    /\ ~IsPrime(a)
    /\ ret.value[1] > 54

(***************************************************************************)
(* gen_prime on a type of `bits` bits (the macro impl_randprime_prim).     *)
(***************************************************************************)
\* gen_prime(bit_size, _) for the value `draw` of self.gen(): "return" with
\* the prime returned, or "again" when next_prime gives None and gen_prime
\* calls itself (and draws again), or "panic" for a bit_size beyond the type
gen_prime(bits, bit_size, draw) ==
    IF bit_size > bits THEN [outcome |-> "panic", value |-> 0]
    ELSE LET t == draw \div Pow2(bits - bit_size)
         IN  IF is_prime64_big(t) THEN [outcome |-> "return", value |-> t]
             ELSE LET next == next_prime(bits, t)
                  IN  IF is_some(next)
                      THEN [outcome |-> "return", value |-> unwrap(next)]
                      ELSE [outcome |-> "again", value |-> 0]

\* The specification: calls of gen_prime on a type of b bits with bit_size m
\* and the draw a. Every draw of a u8 is tried; the draws of a u16 are those
\* with zero low bits whose candidate t is among the MaxGen smallest or the
\* MaxGen largest values of bit_size bits.
MaxGen == 300

GenDraws(bits, bit_size) ==
    IF bits = 8 THEN 0 .. 255
    ELSE {t * Pow2(bits - bit_size) :
            t \in {x \in 0 .. (Pow2(bit_size) - 1) :
                     x <= MaxGen \/ x >= Pow2(bit_size) - MaxGen}}

GenInit ==
    /\ op = "idle"
    /\ b \in {8, 16}
    /\ m \in 1 .. b
    /\ a \in GenDraws(b, m)
    /\ ret = NoRet
    /\ NoRun

GenPrime ==
    /\ op = "idle"
    /\ LET p == gen_prime(b, m, a)
       IN  IF p.outcome = "again"
           THEN op' = "retry" /\ ret' = ret
           ELSE op' = "gen_prime" /\ ret' = p
    /\ UNCHANGED <<a, b, m, run>>

\* the recursive call: a new draw
GenAgain ==
    /\ op = "retry"
    /\ op' = "idle"
    /\ a' \in GenDraws(b, m)
    /\ UNCHANGED <<b, m, ret, run>>

GenNext == GenPrime \/ GenAgain

SpecGen == GenInit /\ [][GenNext]_vars

\* every value returned by gen_prime is prime
GenPrimeIsPrime == op = "gen_prime" => IsPrime(ret.value)

\* C15: every value p returned by gen_prime(bit_size, _), 1 <= bit_size <=
\* T::BITS, is prime and p < 2^bit_size, whatever value is drawn.
GenPrimeWithinBits ==
    op = "gen_prime" => IsPrime(ret.value) /\ ret.value < Pow2(m)

(***************************************************************************)
(* The unchecked operations of the 128-bit addm, subm and mulm: the exact  *)
(* value of each `+` and `-` executed, computed over the integers from the *)
(* operands the code holds at that point.                                  *)
(***************************************************************************)
\* the same for an addm that does not reduce its operands in the fallback
addm_u128_steps_unreduced(x, y, n) ==
    IF is_some(checked_add(x, y)) THEN {}
    ELSE IF x < wrapping_sub(n, y) THEN {n - y, x + y}
    ELSE {n - y, n - Max(x, y), Min(x, y) - wrapping_sub(n, Max(x, y))}

\* addm: m - rhs, then lhs + rhs, or m - max and min - (m - max)
addm_u128_steps(x, y, n) ==
    IF is_some(checked_add(x, y)) THEN {}
    ELSE LET lhs == x % n
             rhs == y % n
         IN  IF lhs < wrapping_sub(n, rhs) THEN {n - rhs, lhs + rhs}
             ELSE {n - rhs, n - Max(lhs, rhs),
                   Min(lhs, rhs) - wrapping_sub(n, Max(lhs, rhs))}

\* subm: lhs - rhs, or rhs - lhs and m - (rhs - lhs)
subm_u128_steps(x, y, n) ==
    LET lhs == x % n
        rhs == y % n
    IN  IF lhs >= rhs THEN {lhs - rhs}
        ELSE {rhs - lhs, n - wrapping_sub(rhs, lhs)}

\* mulm: the operations of the two addm of each turn of `while b > 0`
RECURSIVE mulm_u128_loop_steps(_, _, _, _)
mulm_u128_loop_steps(x, y, res, n) ==
    IF y > 0
    THEN (IF y % 2 > 0 THEN addm_u128_steps(res, x, n) ELSE {})
             \cup addm_u128_steps(x, x, n)
             \cup mulm_u128_loop_steps(addm_u128(x, x, n), y \div 2,
                                       IF y % 2 > 0 THEN addm_u128(res, x, n)
                                       ELSE res, n)
    ELSE {}

mulm_u128_steps(x, y, n) ==
    IF is_some(checked_mul(x, y)) \/ is_some(checked_mul(x % n, y % n)) THEN {}
    ELSE mulm_u128_loop_steps(x % n, y % n, 0, n)

InWord(S) == \A v \in S : 0 <= v /\ v < Pow2(WordBits)

\* C17: in the 128-bit addm, subm and mulm (at the word width, no wider
\* accumulator), every intermediate value of every unchecked operation stays
\* in [0, 2^W): m - rhs, lhs + rhs, m - max, min - (m - max) in addm and
\* m - (rhs - lhs) in subm never wrap, for all a, b < 2^W and 1 <= m < 2^W.
NoIntermediateWraps ==
    /\ op = "addm" => InWord(addm_u128_steps(a, b, m))
    /\ op = "subm" => InWord(subm_u128_steps(a, b, m))
    /\ op = "mulm" => InWord(mulm_u128_steps(a, b, m))

\* a mulm that went through the shift-and-add loop, one of whose addm took
\* the fallback of the overflowing sum
MulmLoopAddmFallback ==
    /\ op = "mulm"
    /\ ~is_some(checked_mul(a % m, b % m))
    /\ mulm_u128_steps(a, b, m) # {}
    /\ ret.u128 = (a * b) % m

(***************************************************************************)
(* The SQUFOF multipliers tried on one composite residual.                 *)
(***************************************************************************)
\* SQUFOF_MULTIPLIERS[i / 5] as u64, the multiplier passed at trial count k
squfof_multiplier(k) == SQUFOF_MULTIPLIERS[(k \div 5) + 1]

\* the multipliers passed to squfof by the trials 1 .. k - 1, all failed,
\* when the loop is at trial count k
multipliers_tried(k) ==
    {squfof_multiplier(j) : j \in {x \in 1 .. (k - 1) : squfof_turn(x)}}

\* C18: while one composite residual is factored and every attempt fails,
\* each of the 16 entries of SQUFOF_MULTIPLIERS, the first entry 1 included,
\* is passed to squfof at some trial count i: once i is past the last SQUFOF
\* turn the whole table has been tried.
AllSqufofMultipliersTried ==
    (pc = "search" /\ i >= 5 * Len(SQUFOF_MULTIPLIERS)) =>
        multipliers_tried(i) =
            {SQUFOF_MULTIPLIERS[k] : k \in 1 .. Len(SQUFOF_MULTIPLIERS)}

\* what the loop does instead: past the last SQUFOF turn, the entries tried
\* are all but the first
SqufofSkipsFirstMultiplier ==
    (pc = "search" /\ i >= 5 * Len(SQUFOF_MULTIPLIERS)) =>
        multipliers_tried(i) =
            {SQUFOF_MULTIPLIERS[k] : k \in 2 .. Len(SQUFOF_MULTIPLIERS)}

(***************************************************************************)
(* Trial division with the pre-computed tables of the big-table build, on  *)
(* a word of TrialBits bits (64 in the code): one table prime p against    *)
(* one residual.                                                           *)
(***************************************************************************)
TrialBits == 11
TrialPrimes == 20

\* u64::wrapping_mul on the word
wrapping_mul(x, y) == (x * y) % Pow2(TrialBits)

\* tables::SMALL_PRIMES_INV: the inverse of the odd prime p modulo 2^W; p is
\* its own inverse modulo 8 and each step doubles the number of right bits
inv_step(p, x) == wrapping_mul(x, (2 - wrapping_mul(p, x)) % Pow2(TrialBits))
small_primes_inv(p) == inv_step(p, inv_step(p, inv_step(p, inv_step(p, p))))

\* tables::SMALL_PRIMES_INVLIM: (2^W - 1) / p
small_primes_invlim(p) == (Pow2(TrialBits) - 1) \div p

\* the loop with the test r2 < plim
RECURSIVE count_divisions_strict(_, _, _, _)
count_divisions_strict(r, pinv, plim, k) ==
    LET r2 == wrapping_mul(r, pinv)
    IN  IF r2 < plim THEN count_divisions_strict(r2, pinv, plim, k + 1) ELSE k

\* loop { r2 = r.wrapping_mul(pinv); if r2 <= plim { k += 1; r = r2 } else
\* { break } }: the final k
RECURSIVE count_divisions(_, _, _, _)
count_divisions(r, pinv, plim, k) ==
    LET r2 == wrapping_mul(r, pinv)
    IN  IF r2 <= plim THEN count_divisions(r2, pinv, plim, k + 1) ELSE k

\* p64.pow(k) on the word, as a release build computes it
RECURSIVE pow(_, _)
pow(p, k) == IF k = 0 THEN 1 ELSE wrapping_mul(p, pow(p, k - 1))

\* the body of the loop on the table for the prime p: <<residual, result>>
trial_divide_big(r, p, map) ==
    LET k == count_divisions(r, small_primes_inv(p), small_primes_invlim(p), 0)
    IN  IF k > 0 THEN <<r \div pow(p, k), insert(map, p, k)>> ELSE <<r, map>>

\* The specification: the residual target (kept in target) in 1 .. 2^W - 1
\* against the table prime of index pidx, the first one (2) being skipped.
TrialInit ==
    /\ op = "idle"
    /\ a = 0
    /\ b = 0
    /\ m = 1
    /\ ret = NoRet
    /\ pc = "trial"
    /\ target \in 1 .. (Pow2(TrialBits) - 1)
    /\ residual = target
    /\ pidx \in 2 .. TrialPrimes
    /\ result = EmptyMap
    /\ factored = FALSE
    /\ todo = <<>>
    /\ cur = 0
    /\ i = 0

TrialDivideBig ==
    /\ pc = "trial"
    /\ LET after == trial_divide_big(residual, SMALL_PRIMES_BIG[pidx], result)
       IN  /\ residual' = after[1]
           /\ result' = after[2]
           /\ factored' = (after[1] = 1)
    /\ pc' = "tried"
    /\ UNCHANGED <<target, pidx, todo, cur, i, kernel>>

TrialNext == TrialDivideBig

SpecTrial == TrialInit /\ [][TrialNext]_vars

\* C19: for every odd table prime p, with pinv = p^-1 mod 2^W and
\* plim = (2^W - 1) / p, and every residual r >= 1: r * pinv mod 2^W <= plim
\* if and only if p divides r, and then the product is r / p; the count k of
\* the loop is the multiplicity of p in r, p^k does not overflow, and the
\* residual and the exponent recorded are those of the '%'-based path.
FastDivisionIsDivision ==
    pc = "tried" =>
        LET p == SMALL_PRIMES_BIG[pidx]
            r2 == wrapping_mul(target, small_primes_inv(p))
            k == IF p \in DOMAIN result THEN result[p] ELSE 0
        IN  /\ wrapping_mul(p, small_primes_inv(p)) = 1
            /\ r2 <= small_primes_invlim(p) <=> target % p = 0
            /\ target % p = 0 => r2 = target \div p
            /\ k = Multiplicity(target, p)
            /\ Power(p, k) < Pow2(TrialBits)
            /\ <<residual, result>> = divide_out(target, p, EmptyMap)

\* a residual divided three times or more by a table prime above 3
FastDivisionThrice ==
    /\ pc = "tried"
    /\ pidx > 2
    /\ SMALL_PRIMES_BIG[pidx] \in DOMAIN result
    /\ result[SMALL_PRIMES_BIG[pidx]] >= 3
    /\ residual > 1

(***************************************************************************)
(* The end of trial division in factors64.                                 *)
(***************************************************************************)
\* C20: whenever trial division stops with factored = true (a table prime
\* exceeds floor(sqrt(T)) + 1, or the residual reached 1), the residual is 1
\* or a prime strictly greater than every key already recorded, so that
\* inserting (residual, 1) overwrites no entry and records no composite key.
FactoredResidualIsPrime ==
    (pc = "tried" /\ factored) =>
        \/ residual = 1
        \/ /\ IsPrime(residual)
           /\ \A k \in DOMAIN result : k < residual

\* trial division stopped at a table prime above the bound with a prime
\* residual left and two keys or more already recorded
FactoredWithPrimeResidual ==
    /\ pc = "tried"
    /\ factored
    /\ residual > 1
    /\ SMALL_PRIMES[pidx] > tsqrt(target)
    /\ Cardinality(DOMAIN result) >= 2

(***************************************************************************)
(* jacobi against the reciprocity loop.                                    *)
(***************************************************************************)
\* the loop as the specification words it, from (a, n) with the sign t:
\* until a = 0, strip the factors of 2 of a (toggling the sign when n mod 8
\* is 3 or 5), swap a and n (toggling when both are 3 mod 4), reduce a mod
\* n; then the sign if the final n is 1, else 0
RECURSIVE StripTwos(_, _, _)
StripTwos(x, n, t) ==
    IF x % 2 = 1 THEN <<x, t>>
    ELSE StripTwos(x \div 2, n, IF n % 8 \in {3, 5} THEN -t ELSE t)

RECURSIVE ReciprocityLoop(_, _, _)
ReciprocityLoop(x, n, t) ==
    IF x = 0 THEN (IF n = 1 THEN t ELSE 0)
    ELSE LET odd == StripTwos(x, n, t)
             sign == IF odd[1] % 4 = 3 /\ n % 4 = 3 THEN -odd[2] ELSE odd[2]
         IN  ReciprocityLoop(n % odd[1], odd[1], sign)

\* C21: for every a >= 0 and odd n >= 1, jacobi(a, n) is the value of the
\* reciprocity loop (until a = 0, then the sign if the final n is 1, else
\* 0): the early returns for a = 0 and a = 1 do not change it, n = 1
\* included, and the fixed-width and the arbitrary-precision implementations
\* return the same value.
JacobiIsReciprocityLoop ==
    op = "jacobi" =>
        /\ ret.uu = ReciprocityLoop(a, m, 1)
        /\ ret.u128 = ReciprocityLoop(a, m, 1)
        /\ ret.big = ReciprocityLoop(a, m, 1)
        /\ ret.uu = ret.big /\ ret.u128 = ret.big

\* what holds instead: the implementations agree with each other, and with
\* the loop everywhere but at a = 0, n = 1
JacobiIsLoopButAtZeroOne ==
    op = "jacobi" =>
        /\ ret.uu = ret.big /\ ret.u128 = ret.big
        /\ ~(a = 0 /\ m = 1) => ret.uu = ReciprocityLoop(a, m, 1)
        /\ (a = 0 /\ m = 1) => ret.uu = 0 /\ ReciprocityLoop(a, m, 1) = 1

(***************************************************************************)
(* The work stack of factors64.                                            *)
(***************************************************************************)
RECURSIVE SeqProduct(_)
SeqProduct(seq) ==
    IF seq = <<>> THEN 1 ELSE seq[1] * SeqProduct(SubSeq(seq, 2, Len(seq)))

\* C22: at the start of every iteration of the hard-residual loop (the pop),
\* the product of the entries of the work stack times the product of p^e
\* over the recorded map is T, and every entry of the stack is >= 2, given
\* that each divisor d returned for n has 1 < d < n and divides n.
StackProductInvariant ==
    pc = "pop" =>
        /\ SeqProduct(todo) * MapProduct(result) = target
        /\ \A k \in 1 .. Len(todo) : todo[k] >= 2

\* three entries wait on the stack while factors are already recorded
StackHoldsThree ==
    /\ pc = "pop"
    /\ Len(todo) >= 3
    /\ result # EmptyMap

(***************************************************************************)
(* Termination of factors64: the fair specification. The steps of the      *)
(* function itself are always taken; for each composite residual a trial   *)
(* of squfof or pollard_rho eventually returns a divisor.                   *)
(***************************************************************************)
MaxFairSmall == 400
MaxFairCofactor == 2

FairTargets ==
    (1 .. MaxFairSmall)
        \cup {c * r : c \in 1 .. MaxFairCofactor, r \in HardResiduals \cup {65537}}

FairInit == FactorInit /\ target \in FairTargets

SpecFactorFair ==
    /\ FairInit
    /\ [][FactorNext]_vars
    /\ WF_vars(Enter \/ TrialDivide \/ TrialExhausted \/ AfterTrial \/ Pop)
    /\ WF_vars(SqufofFound \/ RhoFound)

\* the accesses of the search loop stay in bounds: i counts from 1 and
\* SQUFOF_MULTIPLIERS is indexed by i / 5 below its length; the table of
\* primes is indexed within its length
SearchInBounds ==
    /\ pc = "search" => i >= 1
    /\ (pc = "search" /\ squfof_turn(i)) => (i \div 5) < Len(SQUFOF_MULTIPLIERS)
    /\ (pc = "search" \/ pc = "pop") => \A k \in 1 .. Len(todo) : todo[k] >= 1

\* C23: for every T >= 1, factors64(T) terminates without panicking: when
\* for each composite residual some retry of pollard_rho or squfof
\* eventually returns a non-trivial divisor, the work stack becomes empty and
\* the map is returned; the trial counter i and the index i / 5 of the
\* SQUFOF table never go out of bounds on the way.
Factors64Terminates == [](SearchInBounds) /\ <>(pc = "done")

\* a run that finished after trials beyond the last turn of SQUFOF had failed
Factors64DoneAfterAllTurns ==
    /\ pc = "done"
    /\ i > 5 * Len(SQUFOF_MULTIPLIERS) - 5
    /\ Cardinality(DOMAIN result) >= 2

(***************************************************************************)
(* The wheel loops of next_prime and prev_prime, one turn at a time, on a  *)
(* u16 target a beyond the table: cur is t, i is the tracked residue.      *)
(***************************************************************************)
WheelTargets == {t \in WalkTargets(16) : ~in_table_range(t)}

WheelInit ==
    /\ op = "idle"
    /\ b = 16
    /\ a \in WheelTargets
    /\ m = 1
    /\ ret = NoRet
    /\ pc = "call"
    /\ target = 0
    /\ result = EmptyMap
    /\ residual = 0
    /\ factored = FALSE
    /\ pidx = 0
    /\ todo = <<>>
    /\ cur = 0
    /\ i = 0

\* lines 571-572 and 606-607: let mut i = (target % WHEEL_SIZE).to_u8();
\* let mut t = target.clone()
NextWheelEnter ==
    /\ pc = "call"
    /\ ~in_table_range(a)
    /\ op' = "next_prime"
    /\ cur' = a
    /\ i' = a % WHEEL_SIZE
    /\ pc' = "wheel"
    /\ UNCHANGED <<a, b, m, ret, target, result, residual, factored, pidx, todo>>

PrevWheelEnter ==
    /\ pc = "call"
    /\ ~(a <= 1 + 1)
    /\ ~in_table_range(a)
    /\ op' = "prev_prime"
    /\ cur' = a
    /\ i' = a % WHEEL_SIZE
    /\ pc' = "wheel"
    /\ UNCHANGED <<a, b, m, ret, target, result, residual, factored, pidx, todo>>

\* lines 573-580: one turn of the loop of next_prime
NextWheelTurn ==
    /\ pc = "wheel"
    /\ op = "next_prime"
    /\ LET after == next_wheel_step(b, <<cur, i>>)
       IN  IF ~is_some(after)
           THEN /\ pc' = "none"
                /\ ret' = [value |-> None]
                /\ UNCHANGED <<cur, i>>
           ELSE /\ cur' = unwrap(after)[1]
                /\ i' = unwrap(after)[2]
                /\ IF is_prime_probably(unwrap(after)[1])
                   THEN pc' = "break" /\ ret' = [value |-> Some(unwrap(after)[1])]
                   ELSE pc' = "wheel" /\ ret' = ret
    /\ UNCHANGED <<op, a, b, m, target, result, residual, factored, pidx, todo>>

\* lines 608-615: one turn of the loop of prev_prime
PrevWheelTurn ==
    /\ pc = "wheel"
    /\ op = "prev_prime"
    /\ LET after == prev_wheel_step(b, <<cur, i, FALSE>>)
       IN  /\ cur' = after[1]
           /\ i' = after[2]
           /\ IF is_prime_probably(after[1])
              THEN pc' = "break" /\ ret' = [value |-> Some(after[1])]
              ELSE pc' = "wheel" /\ ret' = ret
    /\ UNCHANGED <<op, a, b, m, target, result, residual, factored, pidx, todo>>

WheelNext == NextWheelEnter \/ PrevWheelEnter \/ NextWheelTurn \/ PrevWheelTurn

SpecWheel == WheelInit /\ [][WheelNext]_vars

\* C24: in the wheel loops of next_prime and prev_prime the tracked residue
\* i is t mod WHEEL_SIZE at the start of every turn, so the index of the
\* wheel table is in [0, WHEEL_SIZE), and no prime strictly between the
\* starting t and the value reached (the returned value at the break) is
\* skipped.
WheelResidueTracksTarget ==
    /\ pc = "wheel" =>
           /\ i = cur % WHEEL_SIZE
           /\ 0 <= i /\ i < WHEEL_SIZE
           /\ i + 1 \in DOMAIN WHEEL_NEXT
           /\ i + 1 \in DOMAIN WHEEL_PREV
    /\ (pc \in {"wheel", "break", "none"} /\ op = "next_prime") =>
           \A q \in (a + 1) .. (cur - 1) : ~IsPrime(q)
    /\ (pc \in {"wheel", "break"} /\ op = "prev_prime") =>
           \A q \in (cur + 1) .. (a - 1) : ~IsPrime(q)
    /\ pc = "break" => IsPrime(cur) /\ ret.value = Some(cur)
    /\ (pc = "break" /\ op = "next_prime") => ret.value = next_prime(b, a)
    /\ (pc = "break" /\ op = "prev_prime") => ret.value = prev_prime(b, a)

\* prev_prime walked down a gap of more than thirty to its prime
WheelWalkedLongGap ==
    /\ pc = "break"
    /\ op = "prev_prime"
    /\ a - cur > 30

(***************************************************************************)
(* gen_safe_prime on a type of `bits` bits (the macro impl_randprime_prim). *)
(***************************************************************************)
\* T::checked_mul
checked_mul_in(bits, x, y) == IF x * y < Pow2(bits) THEN Some(x * y) ELSE None

\* gen_safe_prime that returns 2p + 1 without the test of its primality
gen_safe_prime_untested(bits, bit_size, draw) ==
    LET p == gen_prime(bits, bit_size, draw)
    IN  IF p.outcome # "return" THEN [outcome |-> p.outcome, value |-> 0, path |-> "none"]
        ELSE IF is_prime64_big(p.value \div 2)
        THEN [outcome |-> "return", value |-> p.value, path |-> "p"]
        ELSE LET doubled == checked_mul_in(bits, p.value, 2)
                 p2 == IF is_some(doubled) THEN checked_add_in(bits, unwrap(doubled), 1)
                       ELSE None
             IN  IF is_some(p2)
                 THEN [outcome |-> "return", value |-> unwrap(p2), path |-> "2p+1"]
                 ELSE [outcome |-> "again", value |-> 0, path |-> "none"]

\* gen_safe_prime(bit_size) for the value `draw` of self.gen(): "return" with
\* the value returned and the path that returned it, "again" when gen_prime
\* or gen_safe_prime calls itself (and draws again), "panic" when gen_prime
\* panics
gen_safe_prime(bits, bit_size, draw) ==
    LET p == gen_prime(bits, bit_size, draw)
    IN  IF p.outcome # "return" THEN [outcome |-> p.outcome, value |-> 0, path |-> "none"]
        ELSE IF is_prime64_big(p.value \div 2)
        THEN [outcome |-> "return", value |-> p.value, path |-> "p"]
        ELSE LET doubled == checked_mul_in(bits, p.value, 2)
                 p2 == IF is_some(doubled) THEN checked_add_in(bits, unwrap(doubled), 1)
                       ELSE None
             IN  IF is_some(p2) /\ is_prime64_big(unwrap(p2))
                 THEN [outcome |-> "return", value |-> unwrap(p2), path |-> "2p+1"]
                 ELSE [outcome |-> "again", value |-> 0, path |-> "none"]

\* The specification: calls of gen_safe_prime on a type of b bits with
\* bit_size m and the draw a. Every draw of a u8 is tried; the draws of a u16
\* are those with zero low bits whose candidate t is among the MaxSafe
\* smallest or the MaxSafe largest values of bit_size bits.
MaxSafe == 60

SafeDraws(bits, bit_size) ==
    IF bits = 8 THEN 0 .. 255
    ELSE {t * Pow2(bits - bit_size) :
            t \in (0 .. Min(MaxSafe, Pow2(bit_size) - 1))
                     \cup (Max(0, Pow2(bit_size) - MaxSafe) .. (Pow2(bit_size) - 1))}

SafeInit ==
    /\ op = "idle"
    /\ b \in {8, 16}
    /\ m \in 1 .. b
    /\ a \in SafeDraws(b, m)
    /\ ret = NoRet
    /\ NoRun

\* one call of gen_safe_prime on a type of b bits with bit_size m and the
\* draw a
GenSafePrime ==
    /\ op = "idle"
    /\ LET q == gen_safe_prime(b, m, a)
       IN  IF q.outcome = "again"
           THEN op' = "retry" /\ ret' = ret
           ELSE op' = "gen_safe_prime" /\ ret' = q
    /\ UNCHANGED <<a, b, m, run>>

\* the recursive call: a new draw
SafeAgain ==
    /\ op = "retry"
    /\ op' = "idle"
    /\ a' \in SafeDraws(b, m)
    /\ UNCHANGED <<b, m, ret, run>>

SafeNext == GenSafePrime \/ SafeAgain

SpecSafe == SafeInit /\ [][SafeNext]_vars

\* C25: every value q returned by gen_safe_prime(bit_size) is a safe prime,
\* q prime and (q - 1) / 2 prime, on both return paths (q = p with p >> 1
\* prime, and q = 2p + 1 computed without overflow), for every prime p that
\* gen_prime can yield, p = 2 and p = 3 included.
GenSafePrimeIsSafe ==
    (op = "gen_safe_prime" /\ ret.outcome = "return") =>
        /\ IsPrime(ret.value)
        /\ IsPrime((ret.value - 1) \div 2)
        /\ ret.value < Pow2(b)

\* gen_prime gave 2 or 3 and the value returned is 2p + 1
GenSafePrimeDoubledSmall ==
    /\ op = "gen_safe_prime"
    /\ ret.outcome = "return"
    /\ ret.path = "2p+1"
    /\ ret.value = 7

====
